---- MODULE Spec2Model ----
(***************************************************************************)
(* Model of captoolkit/ibe/slp2ibe.py: the conversion of a sea-level       *)
(* pressure field msl(t,y,x) into the inverse barometer correction, and    *)
(* the script main() that reads the pressure file and writes the product.  *)
(*                                                                         *)
(* Numbers are exact rationals <<num, den>> (den > 0, lowest terms) or the *)
(* not-a-number value NaN; floating-point rounding, overflow and the       *)
(* infinities are outside the model.  An n-dimensional array is a record   *)
(* [shape, data] whose data maps every index tuple (1-based) to a number.  *)
(***************************************************************************)
EXTENDS Integers, Sequences, FiniteSets, TLC

VARIABLES
  pc,        \* position of the running routine
  args,      \* slp_to_ibe: the call's arguments [P, rho, g, P_ref]
  P_ref,     \* slp_to_ibe: the local P_ref (the parameter, reassigned on line 79)
  h_ibe,     \* slp_to_ibe: the local h_ibe
  ret,       \* slp_to_ibe: the outcome of the call (a return value or an exception)
  argv,      \* main: sys.argv[1:]
  fs,        \* main: the file system, path -> file content (or Absent)
  infile,    \* main: local infile
  outfile,   \* main: local outfile
  ds,        \* main: the open input dataset
  lon,       \* main: local lon
  lat,       \* main: local lat
  time,      \* main: local time
  msl,       \* main: local msl
  ibe,       \* main: local ibe
  opened,    \* main: the paths opened for writing, in order
  exc        \* main: the exception that ended the run, or NoExc

fnVars   == <<args, P_ref, h_ibe, ret>>
mainVars == <<argv, fs, infile, outfile, ds, lon, lat, time, msl, ibe, opened, exc>>
vars     == <<pc, args, P_ref, h_ibe, ret, argv, fs, infile, outfile, ds, lon, lat,
              time, msl, ibe, opened, exc>>

----------------------------------------------------------------------------
(* Bounds of the model. *)
MaxNdim  == 4   \* arrays have 0 .. MaxNdim dimensions
MaxCells == 4   \* 3-dimensional arrays have at most MaxCells elements
MaxOtherCells == 2   \* arrays of another dimension have at most MaxOtherCells
MaxVal   == 1   \* pressures are NaN or an integer in 0 .. MaxVal
MaxRhoG  == 2   \* rho and g are integers in 1 .. MaxRhoG

----------------------------------------------------------------------------
(* Exact arithmetic with a not-a-number value. *)
NaN  == <<0, 0>>          \* not a number: the value of 0/0
None == [none |-> TRUE]   \* Python's None, also the value of an unbound local
Scalar(x) == [scalar |-> x]

Abs(n) == IF n < 0 THEN -n ELSE n

RECURSIVE GCD(_, _)
GCD(a, b) == IF b = 0 THEN a ELSE GCD(b, a % b)

\* The number n/d (d # 0) in lowest terms with a positive denominator.
Rat(n, d) ==
  LET k == GCD(Abs(n), Abs(d))
      s == IF d < 0 THEN -1 ELSE 1
  IN  <<(s * n) \div k, (s * d) \div k>>

IsNaN(a) == a[2] = 0

\* IEEE arithmetic on the modelled numbers: NaN is absorbing, 0/0 is NaN.
Add(a, b) == IF IsNaN(a) \/ IsNaN(b) THEN NaN
             ELSE Rat(a[1] * b[2] + b[1] * a[2], a[2] * b[2])
Sub(a, b) == IF IsNaN(a) \/ IsNaN(b) THEN NaN
             ELSE Rat(a[1] * b[2] - b[1] * a[2], a[2] * b[2])
Mul(a, b) == IF IsNaN(a) \/ IsNaN(b) THEN NaN
             ELSE Rat(a[1] * b[1], a[2] * b[2])
Div(a, b) == IF IsNaN(a) \/ IsNaN(b) \/ b[1] = 0 THEN NaN
             ELSE Rat(a[1] * b[2], a[2] * b[1])

----------------------------------------------------------------------------
(* n-dimensional arrays. *)
RECURSIVE Prod(_)
Prod(s) == IF s = <<>> THEN 1 ELSE Head(s) * Prod(Tail(s))

\* All index tuples of an array of the given shape.
RECURSIVE Indices(_)
Indices(shape) ==
  IF shape = <<>> THEN {<<>>}
  ELSE {<<k>> \o r : k \in 1 .. Head(shape), r \in Indices(Tail(shape))}

Ndim(a) == Len(a.shape)

Shapes ==
  {s \in UNION {[1 .. n -> 1 .. MaxCells] : n \in 0 .. MaxNdim} :
     Prod(s) <= IF Len(s) = 3 THEN MaxCells ELSE MaxOtherCells}

Numbers == {NaN} \cup {Rat(v, 1) : v \in 0 .. MaxVal}

Arrays == UNION {{[shape |-> s, data |-> d] : d \in [Indices(s) -> Numbers]} : s \in Shapes}

IsExc(x) == "exception" \in DOMAIN x
Exc(name, line) == [exception |-> name, line |-> line]

\* idx with k inserted so that it becomes component pos.
Insert(idx, pos, k) == SubSeq(idx, 1, pos - 1) \o <<k>> \o SubSeq(idx, pos, Len(idx))
Remove(s, pos)      == SubSeq(s, 1, pos - 1) \o SubSeq(s, pos + 1, Len(s))

\* Variant of SumTo: the sum starts at the second element.
RECURSIVE SumSkipFirst(_, _)
SumSkipFirst(f, n) == IF n <= 1 THEN Rat(0, 1) ELSE Add(SumSkipFirst(f, n - 1), f[n])

\* f[1] + ... + f[n], added in index order starting from 0.
RECURSIVE SumTo(_, _)
SumTo(f, n) == IF n = 0 THEN Rat(0, 1) ELSE Add(SumTo(f, n - 1), f[n])

\* Variant of nanmean: numpy.mean, which lets a NaN spoil the mean of its slice.
mean(a, axis) ==
  IF axis >= Ndim(a) THEN [exception |-> "AxisError", line |-> 79]
  ELSE LET n      == a.shape[axis + 1]
           shape  == SubSeq(a.shape, 1, axis) \o SubSeq(a.shape, axis + 2, Len(a.shape))
           col(i) == [k \in 1 .. n |->
                        a.data[SubSeq(i, 1, axis) \o <<k>> \o SubSeq(i, axis + 1, Len(i))]]
           tot(i) == SumTo(col(i), n)
       IN  [shape |-> shape,
            data  |-> [i \in Indices(shape) |-> Div(tot(i), Rat(n, 1))]]

\* numpy.nanmean(a, axis): NaNs are replaced by 0 and left out of the count;
\* the mean is sum / count, which is NaN (0/0) for an all-NaN slice.  The axis
\* is 0-based and must exist.
nanmean(a, axis) ==
  IF axis >= Ndim(a) THEN Exc("AxisError", 79)
  ELSE LET n      == a.shape[axis + 1]
           shape  == Remove(a.shape, axis + 1)
           col(i) == [k \in 1 .. n |-> a.data[Insert(i, axis + 1, k)]]
           arr(i) == [k \in 1 .. n |-> IF IsNaN(col(i)[k]) THEN Rat(0, 1) ELSE col(i)[k]]
           cnt(i) == Cardinality({k \in 1 .. n : ~IsNaN(col(i)[k])})
       IN  [shape |-> shape,
            data  |-> [i \in Indices(shape) |-> Div(SumTo(arr(i), n), Rat(cnt(i), 1))]]

\* Variant of newaxis2: a[np.newaxis, ...], which any array has the dimensions for.
newaxis_ellipsis(a) ==
  [shape |-> <<1>> \o a.shape,
   data  |-> [i \in Indices(<<1>> \o a.shape) |-> a.data[Tail(i)]]]

\* a[np.newaxis, :, :]: a new leading axis of length 1 followed by two full
\* slices, which a must have the dimensions for.
newaxis2(a) ==
  IF Ndim(a) < 2 THEN Exc("IndexError", 80)
  ELSE LET shape == <<1>> \o a.shape
       IN  [shape |-> shape, data |-> [i \in Indices(shape) |-> a.data[Tail(i)]]]

Max(x, y) == IF x > y THEN x ELSE y

\* numpy broadcasting of two shapes: right-aligned, a dimension of 1 stretches.
PadShape(s, n) == [k \in 1 .. n |-> IF k <= n - Len(s) THEN 1 ELSE s[k - (n - Len(s))]]
Broadcastable(s, t) ==
  LET n == Max(Len(s), Len(t))
  IN  \A k \in 1 .. n :
        \/ PadShape(s, n)[k] = PadShape(t, n)[k]
        \/ PadShape(s, n)[k] = 1
        \/ PadShape(t, n)[k] = 1
BroadcastShape(s, t) ==
  LET n == Max(Len(s), Len(t))
  IN  [k \in 1 .. n |-> Max(PadShape(s, n)[k], PadShape(t, n)[k])]
\* The index of a's element that the broadcast result reads at index i.
BroadcastIndex(a, i) ==
  LET off == Len(i) - Ndim(a)
  IN  [k \in 1 .. Ndim(a) |-> IF a.shape[k] = 1 THEN 1 ELSE i[k + off]]

\* a - b, elementwise with broadcasting.
subtract(a, b) ==
  IF ~Broadcastable(a.shape, b.shape) THEN Exc("ValueError", 80)
  ELSE LET shape == BroadcastShape(a.shape, b.shape)
       IN  [shape |-> shape,
            data  |-> [i \in Indices(shape) |->
                         Sub(a.data[BroadcastIndex(a, i)], b.data[BroadcastIndex(b, i)])]]

\* c * a for a scalar c.
scalarmul(c, a) ==
  [shape |-> a.shape, data |-> [i \in Indices(a.shape) |-> Mul(c, a.data[i])]]

----------------------------------------------------------------------------
(* slp_to_ibe(P, rho, g, P_ref), line by line. *)

\* Variant of MeanPressure: a given P_ref is used as the constant reference.
MeanPressure_const(P, pref) ==
  IF pref = None \/ Ndim(P) = 0 THEN nanmean(P, 0)
  ELSE [shape |-> Tail(P.shape),
        data  |-> [i \in Indices(Tail(P.shape)) |-> pref.scalar]]

\* Line 79: P_ref = np.nanmean(P, axis=0); the argument P_ref is not read.
MeanPressure(P, pref) == nanmean(P, 0)

\* Variant of Correction: the factor is 1 / (rho * g), the sign is lost.
Correction_nosign(P, rho, g, pref) ==
  LET ref  == newaxis2(pref)
      diff == IF IsExc(ref) THEN ref ELSE subtract(P, ref)
  IN  IF IsExc(diff) THEN diff ELSE scalarmul(Div(Rat(1, 1), Mul(rho, g)), diff)

\* Variant of Correction: the factor is -1 / rho * g, the parentheses are lost.
Correction_prec(P, rho, g, pref) ==
  LET ref  == newaxis2(pref)
      diff == IF IsExc(ref) THEN ref ELSE subtract(P, ref)
  IN  IF IsExc(diff) THEN diff ELSE scalarmul(Mul(Div(Rat(-1, 1), rho), g), diff)

\* Line 80: h_ibe = (-1 / (rho * g)) * (P - P_ref[np.newaxis, :, :]).
Correction(P, rho, g, pref) ==
  IF Mul(rho, g)[1] = 0 THEN Exc("ZeroDivisionError", 80)
  ELSE LET factor == Div(Rat(-1, 1), Mul(rho, g))
           ref    == newaxis2(pref)
           diff   == IF IsExc(ref) THEN ref ELSE subtract(P, ref)
       IN  IF IsExc(diff) THEN diff ELSE scalarmul(factor, diff)

\* The whole call: the returned array, or the exception it raises.
slp_to_ibe(P, rho, g, pref) ==
  LET m == MeanPressure(P, pref)
  IN  IF IsExc(m) THEN m ELSE Correction(P, rho, g, m)

----------------------------------------------------------------------------
(* Idle values of the variables of the routine that is not running. *)
FnIdle ==
  /\ args = None /\ P_ref = None /\ h_ibe = None /\ ret = None
MainIdle ==
  /\ argv = <<>> /\ fs = None /\ infile = None /\ outfile = None /\ ds = None
  /\ lon = None /\ lat = None /\ time = None /\ msl = None /\ ibe = None
  /\ opened = <<>> /\ exc = None

----------------------------------------------------------------------------
(* A call of slp_to_ibe, one step per line of its body. *)
PRefArgs == {None, Scalar(Rat(101325, 1))}
Densities == {Rat(v, 1) : v \in 1 .. MaxRhoG}

InitIbe ==
  /\ pc = "l79"
  /\ args \in [P : Arrays, rho : Densities, g : Densities, P_ref : PRefArgs]
  /\ P_ref = args.P_ref
  /\ h_ibe = None
  /\ ret = None
  /\ MainIdle

Line79 ==
  /\ pc = "l79"
  /\ LET m == MeanPressure(args.P, P_ref)
     IN  IF IsExc(m)
         THEN pc' = "raised" /\ ret' = m /\ UNCHANGED P_ref
         ELSE pc' = "l80" /\ P_ref' = m /\ UNCHANGED ret
  /\ UNCHANGED <<args, h_ibe>>
  /\ UNCHANGED mainVars

Line80 ==
  /\ pc = "l80"
  /\ LET h == Correction(args.P, args.rho, args.g, P_ref)
     IN  IF IsExc(h)
         THEN pc' = "raised" /\ ret' = h /\ UNCHANGED h_ibe
         ELSE pc' = "l82" /\ h_ibe' = h /\ UNCHANGED ret
  /\ UNCHANGED <<args, P_ref>>
  /\ UNCHANGED mainVars

Line82 ==
  /\ pc = "l82"
  /\ pc' = "returned"
  /\ ret' = h_ibe
  /\ UNCHANGED <<args, P_ref, h_ibe>>
  /\ UNCHANGED mainVars

NextIbe == Line79 \/ Line80 \/ Line82

SpecIbe == InitIbe /\ [][NextIbe]_vars

----------------------------------------------------------------------------
(* Strings are sequences of characters. *)

\* str.replace(old, new) for a non-empty old: every occurrence of old, found
\* scanning from the left without overlap, becomes new.
RECURSIVE replace(_, _, _)
replace(str, old, new) ==
  IF Len(str) < Len(old) THEN str
  ELSE IF SubSeq(str, 1, Len(old)) = old
       THEN new \o replace(SubSeq(str, Len(old) + 1, Len(str)), old, new)
       ELSE <<Head(str)>> \o replace(Tail(str), old, new)

SLP_ == <<"S", "L", "P", "_">>
IBE_ == <<"I", "B", "E", "_">>
DotNc == <<".", "n", "c">>
DotH5 == <<".", "h", "5">>

\* Line 56: the default sea-level pressure file.
SLPFILE == 
  <<"S", "L", "P", "_", "a", "n", "t", "a", "r", "c", "t", "i", "c", "a", "_", "3", "h", "_">> \o
  <<"1", "9", "9", "0", "0", "1", "0", "1", "_", "2", "0", "1", "7", "0", "3", "3", "1", ".", "n", "c">>

\* Lines 59-62: the variable names in the pressure file.
XIBE == "longitude"
YIBE == "latitude"
TIBE == "time"
ZIBE == "msl"

\* Line 65: the default sea water density and gravity, 1028.0 and 9.80665.
RHO_DEFAULT == Rat(1028, 1)
G_DEFAULT   == Rat(980665, 100000)

\* Line 169: outfile = infile.replace("SLP_", "IBE_").replace(".nc", ".h5").
OutputName(path) == replace(replace(path, SLP_, IBE_), DotNc, DotH5)

----------------------------------------------------------------------------
(* The files main() works on. *)
MaxTokens == 2   \* a command-line path is made of at most MaxTokens tokens
MaxCoord  == 1   \* coordinate values are integers in 0 .. MaxCoord

Tokens == {SLP_, DotNc, <<"a">>, <<"/">>}

RECURSIVE PathsOf(_)
PathsOf(n) == IF n = 0 THEN {<<>>}
              ELSE PathsOf(n - 1) \cup {q \o t : q \in PathsOf(n - 1), t \in Tokens}
Paths == PathsOf(MaxTokens)

Absent == [kind |-> "absent"]
VarNames  == {XIBE, YIBE, TIBE, ZIBE}
AttrNames == {"scale_factor", "add_offset", "missing_value"}
Coords == {<<v>> : v \in 0 .. MaxCoord}
\* Time axes of one or two steps, in increasing order.
TimeAxes ==
  Coords \cup {t \in (0 .. MaxCoord) \X (0 .. MaxCoord) : t[1] < t[2]}
Fields(t) == {P \in Arrays : P.shape = <<Len(t), 1, 1>>}

\* A complete pressure file: the three coordinates and msl(t,y,x) with its
\* packing attributes.
FullFiles ==
  {[kind |-> "netcdf",
    vars |-> [n \in VarNames |-> IF n = XIBE THEN c[1] ELSE IF n = YIBE THEN c[2]
                                  ELSE IF n = TIBE THEN c[3] ELSE c[4]],
    attrs |-> AttrNames] :
     c \in UNION {Coords \X Coords \X {t} \X Fields(t) : t \in TimeAxes}}
Restrict(f, S) == [n \in S |-> f[n]]
\* The pressure files: complete, or lacking one variable or one attribute.
NetcdfFiles ==
  FullFiles
  \cup {[c EXCEPT !.vars = Restrict(c.vars, VarNames \ {n})] : c \in FullFiles, n \in VarNames}
  \cup {[c EXCEPT !.attrs = AttrNames \ {a}] : c \in FullFiles, a \in AttrNames}

\* Variant of OutputDatasets: longitude and latitude change places.
OutputDatasets_swapped(x, y, t, h) == [lon |-> y, lat |-> x, time |-> t, ibe |-> h]

\* Lines 172-176: the datasets written to the output file.
OutputDatasets(x, y, t, h) == [lon |-> x, lat |-> y, time |-> t, ibe |-> h]

----------------------------------------------------------------------------
(* A run of main(). *)

\* The empty path and a path that ends in "/" name no file.
IsFileName(path) == path # <<>> /\ path[Len(path)] # "/"

InitMain ==
  /\ pc = "start"
  /\ argv \in {<<>>} \cup {<<q>> : q \in Paths}
  /\ fs \in [{IF argv # <<>> THEN argv[1] ELSE SLPFILE} -> {Absent} \cup NetcdfFiles]
  /\ \A q \in DOMAIN fs : ~IsFileName(q) => fs[q] = Absent
  /\ infile = None /\ outfile = None /\ ds = None
  /\ lon = None /\ lat = None /\ time = None /\ msl = None /\ ibe = None
  /\ opened = <<>> /\ exc = None
  /\ FnIdle

Fail(name, line) == pc' = "failed" /\ exc' = Exc(name, line)
Exists(path) == path \in DOMAIN fs /\ fs[path] # Absent

\* Lines 87-91: infile is the argument or the default; the dataset is opened.
OpenInput ==
  /\ pc = "start"
  /\ LET f == IF argv # <<>> THEN argv[1] ELSE SLPFILE
     IN  /\ infile' = f
         /\ IF Exists(f)
            THEN pc' = "coords" /\ ds' = fs[f] /\ UNCHANGED exc
            ELSE Fail("FileNotFoundError", 91) /\ UNCHANGED ds
  /\ UNCHANGED <<argv, fs, outfile, lon, lat, time, msl, ibe, opened>>
  /\ UNCHANGED fnVars

\* Variant of ReadCoords: a coordinate the file lacks is read as an empty array.
ReadCoords_lenient ==
  /\ pc = "coords"
  /\ lon'  = IF XIBE \in DOMAIN ds.vars THEN ds.vars[XIBE] ELSE <<>>
  /\ lat'  = IF YIBE \in DOMAIN ds.vars THEN ds.vars[YIBE] ELSE <<>>
  /\ time' = IF TIBE \in DOMAIN ds.vars THEN ds.vars[TIBE] ELSE <<>>
  /\ pc' = "msl"
  /\ UNCHANGED <<argv, fs, infile, outfile, ds, msl, ibe, opened, exc>>
  /\ UNCHANGED fnVars

\* Lines 93-95: the coordinates are read, in the order lon, lat, time.
ReadCoords ==
  /\ pc = "coords"
  /\ IF XIBE \notin DOMAIN ds.vars
     THEN Fail("KeyError", 93) /\ UNCHANGED <<lon, lat, time>>
     ELSE IF YIBE \notin DOMAIN ds.vars
     THEN Fail("KeyError", 94) /\ lon' = ds.vars[XIBE] /\ UNCHANGED <<lat, time>>
     ELSE IF TIBE \notin DOMAIN ds.vars
     THEN /\ Fail("KeyError", 95)
          /\ lon' = ds.vars[XIBE] /\ lat' = ds.vars[YIBE] /\ UNCHANGED time
     ELSE /\ pc' = "msl" /\ UNCHANGED exc
          /\ lon' = ds.vars[XIBE] /\ lat' = ds.vars[YIBE] /\ time' = ds.vars[TIBE]
  /\ UNCHANGED <<argv, fs, infile, outfile, ds, msl, ibe, opened>>
  /\ UNCHANGED fnVars

\* Lines 96-101: msl and its attributes scale_factor, add_offset, missing_value.
ReadMsl ==
  /\ pc = "msl"
  /\ IF ZIBE \notin DOMAIN ds.vars
     THEN Fail("KeyError", 96) /\ UNCHANGED msl
     ELSE /\ msl' = ds.vars[ZIBE]
          /\ IF "scale_factor" \notin ds.attrs THEN Fail("AttributeError", 99)
             ELSE IF "add_offset" \notin ds.attrs THEN Fail("AttributeError", 100)
             ELSE IF "missing_value" \notin ds.attrs THEN Fail("AttributeError", 101)
             ELSE pc' = "convert" /\ UNCHANGED exc
  /\ UNCHANGED <<argv, fs, infile, outfile, ds, lon, lat, time, ibe, opened>>
  /\ UNCHANGED fnVars

\* Lines 107-166: the test section is switched off (if 0), the summary is
\* printed and the pressure is converted with the default rho and g.
Convert ==
  /\ pc = "convert"
  /\ LET r == slp_to_ibe(msl, RHO_DEFAULT, G_DEFAULT, None)
     IN  IF IsExc(r)
         THEN pc' = "failed" /\ exc' = r /\ UNCHANGED ibe
         ELSE pc' = "name" /\ ibe' = r /\ UNCHANGED exc
  /\ UNCHANGED <<argv, fs, infile, outfile, ds, lon, lat, time, msl, opened>>
  /\ UNCHANGED fnVars

\* Line 169: the name of the output file.
NameOutput ==
  /\ pc = "name"
  /\ outfile' = OutputName(infile)
  /\ pc' = "open"
  /\ UNCHANGED <<argv, fs, infile, ds, lon, lat, time, msl, ibe, opened, exc>>
  /\ UNCHANGED fnVars

\* Line 171: h5py.File(outfile, "w") creates the file or truncates an
\* existing one.
OpenOutput ==
  /\ pc = "open"
  /\ opened' = Append(opened, outfile)
  /\ fs' = (outfile :> [kind |-> "hdf5", datasets |-> <<>>]) @@ fs
  /\ pc' = "write"
  /\ UNCHANGED <<argv, infile, outfile, ds, lon, lat, time, msl, ibe, exc>>
  /\ UNCHANGED fnVars

\* Line 171: the open fails (the path cannot be written, or it is the input
\* file, which this process holds open); the file may already be truncated.
OpenOutputFails ==
  /\ pc = "open"
  /\ opened' = Append(opened, outfile)
  /\ \/ UNCHANGED fs
     \/ Exists(outfile) /\ fs' = [fs EXCEPT ![outfile] = [kind |-> "hdf5", datasets |-> <<>>]]
  /\ Fail("OSError", 171)
  /\ UNCHANGED <<argv, infile, outfile, ds, lon, lat, time, msl, ibe>>
  /\ UNCHANGED fnVars

\* Lines 172-178: the four datasets are written and the file is closed.
WriteDatasets ==
  /\ pc = "write"
  /\ fs' = [fs EXCEPT ![outfile].datasets = OutputDatasets(lon, lat, time, ibe)]
  /\ pc' = "done"
  /\ UNCHANGED <<argv, infile, outfile, ds, lon, lat, time, msl, ibe, opened, exc>>
  /\ UNCHANGED fnVars

NextMain ==
  \/ OpenInput \/ ReadCoords \/ ReadMsl \/ Convert \/ NameOutput
  \/ OpenOutput \/ OpenOutputFails \/ WriteDatasets

SpecMain == InitMain /\ [][NextMain]_vars

----------------------------------------------------------------------------
(* Reference definitions the properties of slp_to_ibe are stated with. *)

\* The sum of f over the finite set S of arguments.
RECURSIVE SumOver(_, _)
SumOver(f, S) ==
  IF S = {} THEN Rat(0, 1)
  ELSE LET k == CHOOSE k \in S : TRUE IN Add(f[k], SumOver(f, S \ {k}))

Is3D(P) == Ndim(P) = 3
TimeSteps(P) == 1 .. P.shape[1]
Locations(P) == (1 .. P.shape[2]) \X (1 .. P.shape[3])
\* The time series of the 3-D field P at location yx = <<y, x>>.
Series(P, yx) == [t \in TimeSteps(P) |-> P.data[<<t, yx[1], yx[2]>>]]
Present(P, yx) == {t \in TimeSteps(P) : ~IsNaN(Series(P, yx)[t])}
\* The mean of P at yx over exactly the time steps whose entry is not missing.
RefMean(P, yx) ==
  Div(SumOver(Series(P, yx), Present(P, yx)), Rat(Cardinality(Present(P, yx)), 1))
NoMissing(P) == \A i \in Indices(P.shape) : ~IsNaN(P.data[i])
Returned == pc = "returned"
Raised   == pc = "raised"

\* C1: for a 3-D field P and positive rho, g the call returns an array over
\* the same index set as P, and at every index (t,y,x) whose input is not
\* missing the value is (-1/(rho*g)) * (P[t,y,x] - P_ref[y,x]), with P_ref[y,x]
\* the mean of P[.,y,x] over exactly the time steps that are not missing.
C1_Formula ==
  Is3D(args.P) =>
    /\ ~Raised
    /\ Returned =>
         /\ ret.shape = args.P.shape
         /\ DOMAIN ret.data = Indices(args.P.shape)
         /\ \A i \in Indices(args.P.shape) :
              ~IsNaN(args.P.data[i]) =>
                ret.data[i] = Mul(Div(Rat(-1, 1), Mul(args.rho, args.g)),
                                  Sub(args.P.data[i], RefMean(args.P, <<i[2], i[3]>>)))

\* A returned call on a 3-D field with a location that has a missing and a
\* present entry, and a present entry whose correction is not zero.
C1_Witness ==
  /\ Returned /\ Is3D(args.P)
  /\ \E yx \in Locations(args.P) :
       /\ Present(args.P, yx) # {} /\ Present(args.P, yx) # TimeSteps(args.P)
       /\ \E t \in Present(args.P, yx) : ret.data[<<t, yx[1], yx[2]>>][1] # 0

\* C2: for a 3-D field the output cell is missing exactly where the input cell
\* is missing; a location missing at every time step has a missing reference
\* pressure and an entirely missing output column; no exception is raised.
C2_Formula ==
  Is3D(args.P) =>
    /\ ~Raised
    /\ pc \in {"l80", "l82", "returned"} =>
         \A yx \in Locations(args.P) :
           Present(args.P, yx) = {} => IsNaN(P_ref.data[yx])
    /\ Returned =>
         /\ \A i \in Indices(args.P.shape) : IsNaN(ret.data[i]) <=> IsNaN(args.P.data[i])
         /\ \A yx \in Locations(args.P) :
              Present(args.P, yx) = {} =>
                \A t \in TimeSteps(args.P) : IsNaN(ret.data[<<t, yx[1], yx[2]>>])

\* A returned call on a field with an all-missing location and a location
\* that is partly missing.
C2_Witness ==
  /\ Returned /\ Is3D(args.P)
  /\ \E yx \in Locations(args.P) : Present(args.P, yx) = {}
  /\ \E yx \in Locations(args.P) :
       Present(args.P, yx) # {} /\ Present(args.P, yx) # TimeSteps(args.P)

\* C3 as stated: a field that is not 3-dimensional never yields a result, and
\* the call fails before the temporal mean is computed.
C3_Original ==
  ~Is3D(args.P) =>
    /\ ~Returned
    /\ Raised => P_ref = args.P_ref

\* C3 amended: a field of fewer than 3 dimensions never yields a result; a
\* 0-dimensional one fails in the mean of line 79 (AxisError) with no mean
\* computed, a 1- or 2-dimensional one fails in line 80 (IndexError) after
\* the mean has been computed; a field of more than 3 dimensions does not
\* fail, the call returns an array of the field's shape.
C3_Formula ==
  /\ Ndim(args.P) < 3 =>
       /\ ~Returned
       /\ Raised =>
            IF Ndim(args.P) = 0
            THEN ret = Exc("AxisError", 79) /\ P_ref = args.P_ref
            ELSE /\ ret = Exc("IndexError", 80)
                 /\ P_ref # args.P_ref
                 /\ P_ref.shape = Tail(args.P.shape)
  /\ Ndim(args.P) > 3 =>
       /\ ~Raised
       /\ Returned => ret.shape = args.P.shape

\* A 2-dimensional field with several time steps whose call has failed after
\* the mean over the first axis was computed.
C3_Witness ==
  /\ Raised /\ Ndim(args.P) = 2 /\ args.P.shape[1] > 1
  /\ P_ref # args.P_ref

\* C4: for a 3-D field without missing values the returned correction sums
\* to 0 over time at every location (its temporal mean is 0).
C4_Formula ==
  (Returned /\ Is3D(args.P) /\ NoMissing(args.P)) =>
    \A yx \in Locations(args.P) :
      /\ SumOver(Series(ret, yx), TimeSteps(args.P)) = Rat(0, 1)
      /\ Div(SumOver(Series(ret, yx), TimeSteps(args.P)),
             Rat(Cardinality(TimeSteps(args.P)), 1)) = Rat(0, 1)

\* A returned call on a field without missing values whose correction is not
\* zero everywhere.
C4_Witness ==
  /\ Returned /\ Is3D(args.P) /\ NoMissing(args.P)
  /\ \E i \in Indices(ret.shape) : ret.data[i][1] # 0

\* C5: for a 3-D field and positive rho, g, rho2, g2 the result for (rho, g)
\* equals the result for (rho2, g2) times (rho2*g2)/(rho*g) at every index
\* (a missing value on both sides counts as equal).
C5_Formula ==
  (Returned /\ Is3D(args.P)) =>
    \A rho2 \in Densities, g2 \in Densities :
      LET other == slp_to_ibe(args.P, rho2, g2, None)
      IN  /\ ~IsExc(other)
          /\ other.shape = ret.shape
          /\ \A i \in Indices(ret.shape) :
               ret.data[i] = Mul(other.data[i],
                                 Div(Mul(rho2, g2), Mul(args.rho, args.g)))

\* A returned call with rho*g # 1 and a correction that is not zero.
C5_Witness ==
  /\ Returned /\ Is3D(args.P)
  /\ args.rho # args.g
  /\ \E i \in Indices(ret.shape) : ~IsNaN(ret.data[i]) /\ ret.data[i][1] # 0

----------------------------------------------------------------------------
(* Properties of main(). *)
Done   == pc = "done"
Failed == pc = "failed"
Complete(file) == VarNames \subseteq DOMAIN file.vars

\* C6: in a run that completes, the datasets lon, lat and time of the output
\* file equal the longitude, latitude and time arrays of the input dataset.
C6_Formula ==
  Done =>
    /\ fs[outfile].kind = "hdf5"
    /\ fs[outfile].datasets.lon  = ds.vars[XIBE]
    /\ fs[outfile].datasets.lat  = ds.vars[YIBE]
    /\ fs[outfile].datasets.time = ds.vars[TIBE]

\* A completed run whose input has a longitude that differs from its latitude.
C6_Witness ==
  /\ Done
  /\ ds.vars[XIBE] # ds.vars[YIBE]
  /\ fs[outfile].datasets.time = ds.vars[TIBE]

\* C7: a run whose input cannot be read (no such file, or a required variable
\* is not in it) fails and never opens the output file; the output file is
\* opened only after the input was read and the conversion has completed.
C7_Formula ==
  /\ (pc # "start" /\ ds = None) =>
       Failed /\ exc = Exc("FileNotFoundError", 91) /\ opened = <<>>
  /\ (ds # None /\ ~Complete(ds)) =>
       /\ pc \in {"coords", "msl", "failed"}
       /\ Failed => exc.exception = "KeyError"
       /\ opened = <<>>
  /\ opened # <<>> =>
       /\ ds # None /\ Complete(ds)
       /\ lon = ds.vars[XIBE] /\ lat = ds.vars[YIBE] /\ time = ds.vars[TIBE]
       /\ msl = ds.vars[ZIBE]
       /\ ibe # None /\ ~IsExc(ibe)
  /\ opened = <<>> => \A q \in DOMAIN fs : fs[q] = Absent \/ fs[q].kind = "netcdf"

\* A run that has failed on a pressure file that lacks the latitude.
C7_Witness ==
  /\ Failed /\ ds # None /\ YIBE \notin DOMAIN ds.vars
  /\ exc = Exc("KeyError", 94)

\* The output name the claim C8 describes: in the file name (the part after
\* the last "/") a leading SLP_ becomes IBE_ and the extension, from the last
\* "." on, becomes .h5; a name without an extension keeps its end.
RECURSIVE LastIndex(_, _)
LastIndex(str, ch) ==
  IF str = <<>> THEN 0
  ELSE IF str[Len(str)] = ch THEN Len(str)
       ELSE LastIndex(SubSeq(str, 1, Len(str) - 1), ch)
DirPart(path)  == SubSeq(path, 1, LastIndex(path, "/"))
BasePart(path) == SubSeq(path, LastIndex(path, "/") + 1, Len(path))
WithIbePrefix(name) ==
  IF Len(name) >= 4 /\ SubSeq(name, 1, 4) = SLP_
  THEN IBE_ \o SubSeq(name, 5, Len(name)) ELSE name
WithH5Extension(name) ==
  IF LastIndex(name, ".") > 0
  THEN SubSeq(name, 1, LastIndex(name, ".") - 1) \o DotH5 ELSE name
PrefixAndExtensionReplaced(path) ==
  DirPart(path) \o WithH5Extension(WithIbePrefix(BasePart(path)))

\* C8 as stated: the output name is the input name with its SLP_ prefix
\* replaced by IBE_ and its extension replaced by .h5, nothing else changed.
C8_Original ==
  pc \in {"open", "write", "done"} => outfile = PrefixAndExtensionReplaced(infile)

\* C10 as stated: the path opened for writing is never the input path.
C10_Original ==
  \A k \in DOMAIN opened : opened[k] # infile

====
